---- MODULE Spec2Model ----
(***************************************************************************)
(* LogTransferPlugin (mavros_extras/src/plugins/log_transfer.cpp).         *)
(*                                                                         *)
(* The plugin owns a State member, two goal hosts (get_log_list_action_srv *)
(* and get_log_action_srv), three synchronous services and two packet      *)
(* handlers.  Every callback runs to completion; one action of this module *)
(* is one whole callback.                                                  *)
(*                                                                         *)
(* The goal hosts are external.  Their state is the part of a goal host    *)
(* the plugin can observe through acceptNewGoal / isActive /               *)
(* isPreemptRequested / setPreempted: the status of the current goal, the  *)
(* preempt request flag, and whether a new goal is waiting to be accepted. *)
(* A host delivers its callbacks through the dispatcher's queue, so a      *)
(* second goal or a cancel request can reach the host before the callback  *)
(* of the first goal runs.                                                 *)
(***************************************************************************)
EXTENDS Integers, Sequences, FiniteSets, TLC

\* Longest queue of host callbacks waiting for the dispatcher.
MaxQueue == 3

\* Payload capacity of one LOG_DATA packet (ld.data.max_size()).
PayloadCapacity == 90

Servers == {"list", "data"}

\* enum class State
States == {"Idle", "GettingLogList", "GettingLogData"}

\* Status of a host's current goal, as far as isActive() tells them apart.
GoalStatus == {"none", "active", "preempting", "preempted"}

GoalCallback(s) == IF s = "list" THEN "logListRequested" ELSE "logRequested"

PreemptCallback(s) == IF s = "list" THEN "logListRequestPreempted" ELSE "logRequestPreempted"

VARIABLES
    state,       \* the State member of the plugin
    status,      \* status[s]: status of the current goal of host s
    newGoal,     \* newGoal[s]: host s holds a goal that is not accepted yet
    newPreempt,  \* newPreempt[s]: cancel was requested for that waiting goal
    preemptReq,  \* preemptReq[s]: what isPreemptRequested() of host s returns
    queue,       \* callbacks the hosts have handed to the dispatcher
    returned,    \* the callback that has just returned ("none" after a host event)
    goal,        \* what acceptNewGoal returned in it: "goal", "null", "none"
    trace,       \* the outward calls it made, in order
    result,      \* res.success of a synchronous request
    exc,         \* the exception that left the callback, "none" if none
    published,   \* the messages it published, in order
    inbound,     \* the packet it was given, if it is a packet handler
    pre          \* the flag and the hosts' state when it started

vars == <<state, status, newGoal, newPreempt, preemptReq, queue,
          returned, goal, trace, result, exc, published, inbound, pre>>

----------------------------------------------------------------------------
(* One outward call: op is the function called, tgt the host or the message *)
(* type, text the reason string, success the res.success handed over, and  *)
(* eff whether the call took effect (the send did not throw, the accept    *)
(* returned a goal, the goal reported on was still active).                *)
Call(op, tgt, text, success, eff) ==
    [op |-> op, tgt |-> tgt, text |-> text, success |-> success, eff |-> eff]

\* No packet: the callback is not a packet handler.
NoPacket == [kind |-> "none"]

\* The working state of a callback when it starts.
Enter ==
    [state |-> state, status |-> status, newGoal |-> newGoal,
     newPreempt |-> newPreempt, preemptReq |-> preemptReq,
     goal |-> "none", trace |-> <<>>, ret |-> FALSE, result |-> FALSE,
     exc |-> "none", published |-> <<>>, inbound |-> NoPacket]

Snapshot ==
    [state |-> state, status |-> status, newGoal |-> newGoal,
     newPreempt |-> newPreempt, preemptReq |-> preemptReq]

\* The callback h returns with working state c.
Return(h, c) ==
    /\ state' = c.state
    /\ status' = c.status
    /\ newGoal' = c.newGoal
    /\ newPreempt' = c.newPreempt
    /\ preemptReq' = c.preemptReq
    /\ returned' = h
    /\ goal' = c.goal
    /\ trace' = c.trace
    /\ result' = c.result
    /\ exc' = c.exc
    /\ published' = c.published
    /\ inbound' = c.inbound
    /\ pre' = Snapshot

\* A host event is not a callback of the plugin: nothing has just returned.
NoCallback ==
    /\ returned' = "none"
    /\ goal' = "none"
    /\ trace' = <<>>
    /\ result' = FALSE
    /\ exc' = "none"
    /\ published' = <<>>
    /\ inbound' = NoPacket
    /\ pre' = Snapshot

----------------------------------------------------------------------------
(* The goal host interface, as the plugin calls it.                        *)

isActive(c, s) == c.status[s] \in {"active", "preempting"}

isPreemptRequested(c, s) == c.preemptReq[s]

\* Returns null when no new goal is waiting; otherwise the waiting goal
\* becomes the current one (a current goal still active is cancelled by the
\* host itself) and the preempt request flag becomes that of the new goal.
acceptNewGoal(c, s) ==
    IF ~c.newGoal[s]
    THEN [c EXCEPT !.goal = "null",
                   !.trace = Append(@, Call("acceptNewGoal", s, "", FALSE, FALSE))]
    ELSE [c EXCEPT !.status[s] = IF c.newPreempt[s] THEN "preempting" ELSE "active",
                   !.newGoal[s] = FALSE,
                   !.preemptReq[s] = c.newPreempt[s],
                   !.newPreempt[s] = FALSE,
                   !.goal = "goal",
                   !.trace = Append(@, Call("acceptNewGoal", s, "", FALSE, TRUE))]

\* Reports the current goal preempted; a goal that is not active stays as it is.
setPreempted(c, s, success, text) ==
    [c EXCEPT !.status[s] = IF isActive(c, s) THEN "preempted" ELSE @,
              !.trace = Append(@, Call("setPreempted", s, text, success, isActive(c, s)))]

\* UAS_FCU(m_uas)->send_message(msg): ok = FALSE is the std::length_error.
send_message(c, msg, ok) ==
    [c EXCEPT !.trace = Append(@, Call("send_message", msg, "", ok, ok)),
              !.exc = IF ok THEN @ ELSE "length_error"]

----------------------------------------------------------------------------
(* The plugin.                                                             *)

stopLogTransfer(c, ok) ==
    LET c1 == send_message(c, "LOG_REQUEST_END", ok)
    IN  IF c1.exc = "length_error"
        THEN [c1 EXCEPT !.exc = "none", !.ret = FALSE]
        ELSE [c1 EXCEPT !.ret = TRUE]

log_request_list_cb(c, ok) ==
    LET c1 == [c EXCEPT !.result = TRUE]
        c2 == send_message(c1, "LOG_REQUEST_LIST", ok)
    IN  IF c2.exc = "length_error"
        THEN [c2 EXCEPT !.exc = "none", !.result = FALSE]
        ELSE c2

\* log_request_data_cb without the catch clause.
log_request_data_cb_NoCatch(c, ok) ==
    LET c1 == [c EXCEPT !.result = TRUE]
    IN  send_message(c1, "LOG_REQUEST_DATA", ok)

log_request_data_cb(c, ok) ==
    LET c1 == [c EXCEPT !.result = TRUE]
        c2 == send_message(c1, "LOG_REQUEST_DATA", ok)
    IN  IF c2.exc = "length_error"
        THEN [c2 EXCEPT !.exc = "none", !.result = FALSE]
        ELSE c2

\* log_request_end_cb that also ends an active data goal.
log_request_end_cb_Preempts(c, ok) ==
    LET c1 == stopLogTransfer(c, ok)
        c2 == [c1 EXCEPT !.result = c1.ret]
    IN  IF isActive(c2, "data")
        THEN [setPreempted(c2, "data", FALSE, "Log transfer was stopped")
                 EXCEPT !.trace = c2.trace]
        ELSE c2

log_request_end_cb(c, ok) ==
    LET c1 == stopLogTransfer(c, ok)
    IN  [c1 EXCEPT !.result = c1.ret]

\* ros::Time(le.time_utc): a uint32 number of seconds, converted through double.
RosTime(t) == [sec |-> t, nsec |-> 0]

\* handle_log_entry with num_logs and last_log_num exchanged.
handle_log_entry_SwapCounts(c, le, now) ==
    LET msg == [stamp |-> now,
                id |-> le.id,
                num_logs |-> le.last_log_num,
                last_log_num |-> le.num_logs,
                time_utc |-> RosTime(le.time_utc),
                size |-> le.size]
    IN  [c EXCEPT !.published = Append(@, [topic |-> "raw/log_entry", msg |-> msg]),
                  !.inbound = [kind |-> "LOG_ENTRY", pkt |-> le]]

handle_log_entry(c, le, now) ==
    LET msg == [stamp |-> now,
                id |-> le.id,
                num_logs |-> le.num_logs,
                last_log_num |-> le.last_log_num,
                time_utc |-> RosTime(le.time_utc),
                size |-> le.size]
    IN  [c EXCEPT !.published = Append(@, [topic |-> "raw/log_entry", msg |-> msg]),
                  !.inbound = [kind |-> "LOG_ENTRY", pkt |-> le]]

\* handle_log_data clamping with >= to one byte less than the capacity.
handle_log_data_ClampOffByOne(c, ld, now) ==
    LET count == IF ld.count >= PayloadCapacity THEN PayloadCapacity - 1 ELSE ld.count
        msg == [stamp |-> now,
                id |-> ld.id,
                offset |-> ld.ofs,
                data |-> SubSeq(ld.data, 1, count)]
    IN  [c EXCEPT !.published = Append(@, [topic |-> "raw/log_data", msg |-> msg]),
                  !.inbound = [kind |-> "LOG_DATA", pkt |-> ld]]

handle_log_data(c, ld, now) ==
    LET count == IF ld.count > PayloadCapacity THEN PayloadCapacity ELSE ld.count
        msg == [stamp |-> now,
                id |-> ld.id,
                offset |-> ld.ofs,
                data |-> SubSeq(ld.data, 1, count)]
    IN  [c EXCEPT !.published = Append(@, [topic |-> "raw/log_data", msg |-> msg]),
                  !.inbound = [kind |-> "LOG_DATA", pkt |-> ld]]

\* logListRequested deciding on the State member instead of isActive().
logListRequested_FlagCheck(c, ok) ==
    LET c1 == acceptNewGoal(c, "list")
    IN  IF c1.goal = "null"
        THEN c1
        ELSE LET c2 == stopLogTransfer(c1, ok)
                 c3 == IF c2.state = "GettingLogData"
                       THEN setPreempted(c2, "data", FALSE, "Log list was requested")
                       ELSE c2
                 c4 == [c3 EXCEPT !.state = "Idle"]
             IN  IF isPreemptRequested(c4, "list")
                 THEN setPreempted(c4, "list", FALSE, "Log list request was preempted")
                 ELSE c4

\* logListRequested claiming the flag before it tests isPreemptRequested().
logListRequested_FlagBeforeReject(c, ok) ==
    LET c1 == acceptNewGoal(c, "list")
    IN  IF c1.goal = "null"
        THEN c1
        ELSE LET c2 == stopLogTransfer(c1, ok)
                 c3 == IF isActive(c2, "data")
                       THEN setPreempted(c2, "data", FALSE, "Log list was requested")
                       ELSE c2
                 c4 == [c3 EXCEPT !.state = "GettingLogList"]
             IN  IF isPreemptRequested(c4, "list")
                 THEN setPreempted(c4, "list", FALSE, "Log list request was preempted")
                 ELSE c4

\* logListRequested setting the flag to GettingLogList for a goal it keeps.
logListRequested_SetsListFlag(c, ok) ==
    LET c1 == acceptNewGoal(c, "list")
    IN  IF c1.goal = "null"
        THEN c1
        ELSE LET c2 == stopLogTransfer(c1, ok)
                 c3 == IF isActive(c2, "data")
                       THEN setPreempted(c2, "data", FALSE, "Log list was requested")
                       ELSE c2
                 c4 == [c3 EXCEPT !.state = "Idle"]
             IN  IF isPreemptRequested(c4, "list")
                 THEN setPreempted(c4, "list", FALSE, "Log list request was preempted")
                 ELSE [c4 EXCEPT !.state = "GettingLogList"]

\* logListRequested giving up when LOG_REQUEST_END could not be sent.
logListRequested_AbortOnSendFailure(c, ok) ==
    LET c1 == acceptNewGoal(c, "list")
    IN  IF c1.goal = "null"
        THEN c1
        ELSE LET c2 == stopLogTransfer(c1, ok)
                 c3 == IF isActive(c2, "data")
                       THEN setPreempted(c2, "data", FALSE, "Log list was requested")
                       ELSE c2
                 c4 == [c3 EXCEPT !.state = "Idle"]
             IN  IF ~c2.ret
                 THEN c2
                 ELSE IF isPreemptRequested(c4, "list")
                      THEN setPreempted(c4, "list", FALSE, "Log list request was preempted")
                      ELSE c4

\* logListRequested without the isPreemptRequested() branch.
logListRequested_NoReject(c, ok) ==
    LET c1 == acceptNewGoal(c, "list")
    IN  IF c1.goal = "null"
        THEN c1
        ELSE LET c2 == stopLogTransfer(c1, ok)
                 c3 == IF isActive(c2, "data")
                       THEN setPreempted(c2, "data", FALSE, "Log list was requested")
                       ELSE c2
             IN  [c3 EXCEPT !.state = "Idle"]

logListRequested(c, ok) ==
    LET c1 == acceptNewGoal(c, "list")
    IN  IF c1.goal = "null"
        THEN c1
        ELSE LET c2 == stopLogTransfer(c1, ok)
                 c3 == IF isActive(c2, "data")
                       THEN setPreempted(c2, "data", FALSE, "Log list was requested")
                       ELSE c2
                 c4 == [c3 EXCEPT !.state = "Idle"]
             IN  IF isPreemptRequested(c4, "list")
                 THEN setPreempted(c4, "list", FALSE, "Log list request was preempted")
                 ELSE c4

logListRequestPreempted(c) == c

\* logRequested asking the vehicle for the log data once the goal is accepted.
logRequested_SendsData(c) ==
    LET c0 == acceptNewGoal(c, "data")
        c1 == IF c0.goal = "goal"
              THEN [send_message(c0, "LOG_REQUEST_DATA", TRUE) EXCEPT !.exc = "none"]
              ELSE c0
    IN  IF isPreemptRequested(c1, "list")
        THEN LET c2 == setPreempted(c1, "list", FALSE,
                                    "Another log list request was accepted")
             IN  IF isActive(c2, "data")
                 THEN setPreempted(c2, "data", FALSE, "Log list was requested")
                 ELSE c2
        ELSE c1

\* logRequested without the report on the data goal.
logRequested_NoDataReport(c) ==
    LET c1 == acceptNewGoal(c, "data")
    IN  IF isPreemptRequested(c1, "list")
        THEN setPreempted(c1, "list", FALSE, "Another log list request was accepted")
        ELSE c1

\* logRequested asking its own host, not the list host, for the preempt request.
logRequested_OwnHost(c) ==
    LET c1 == acceptNewGoal(c, "data")
    IN  IF isPreemptRequested(c1, "data")
        THEN LET c2 == setPreempted(c1, "list", FALSE,
                                    "Another log list request was accepted")
             IN  IF isActive(c2, "data")
                 THEN setPreempted(c2, "data", FALSE, "Log list was requested")
                 ELSE c2
        ELSE c1

logRequested(c) ==
    LET c1 == acceptNewGoal(c, "data")
    IN  IF isPreemptRequested(c1, "list")
        THEN LET c2 == setPreempted(c1, "list", FALSE,
                                    "Another log list request was accepted")
             IN  IF isActive(c2, "data")
                 THEN setPreempted(c2, "data", FALSE, "Log list was requested")
                 ELSE c2
        ELSE c1

logRequestPreempted(c) == c

----------------------------------------------------------------------------
(* Inbound packets and clock readings the packet handlers are tried on. *)

\* ros::Time::now()
Clock == {[sec |-> 1000, nsec |-> 0], [sec |-> 1000, nsec |-> 500]}

\* mavlink::common::msg::LOG_ENTRY
LogEntryPackets ==
    {[id |-> 3, num_logs |-> 10, last_log_num |-> 9, time_utc |-> 1000, size |-> 4096],
     [id |-> 65535, num_logs |-> 65535, last_log_num |-> 65535,
      time_utc |-> 2147483647, size |-> 2147483647]}

\* The 90 payload bytes of a LOG_DATA packet: two fill patterns.
Payload(k) == [i \in 1..PayloadCapacity |-> (i * k) % 256]

\* mavlink::common::msg::LOG_DATA; count is a uint8 and may exceed the capacity.
LogDataPackets ==
    {[id |-> 1, ofs |-> IF k = 1 THEN 0 ELSE 2147483647, count |-> n, data |-> Payload(k)] :
        n \in {0, 89, 90, 91, 200}, k \in {1, 7}}

Init ==
    /\ state = "Idle"
    /\ status = [s \in Servers |-> "none"]
    /\ newGoal = [s \in Servers |-> FALSE]
    /\ newPreempt = [s \in Servers |-> FALSE]
    /\ preemptReq = [s \in Servers |-> FALSE]
    /\ queue = <<>>
    /\ returned = "none"
    /\ goal = "none"
    /\ trace = <<>>
    /\ result = FALSE
    /\ exc = "none"
    /\ published = <<>>
    /\ inbound = NoPacket
    /\ pre = [state |-> "Idle",
              status |-> [s \in Servers |-> "none"],
              newGoal |-> [s \in Servers |-> FALSE],
              newPreempt |-> [s \in Servers |-> FALSE],
              preemptReq |-> [s \in Servers |-> FALSE]]

(* Host events. *)

\* A client sends a goal to host s.  The host keeps it as the waiting goal
\* (a goal already waiting is displaced), and queues the goal callback; when
\* its current goal is active it first requests preemption of it.
GoalArrives(s) ==
    LET cbs == IF status[s] \in {"active", "preempting"}
               THEN <<PreemptCallback(s), GoalCallback(s)>>
               ELSE <<GoalCallback(s)>>
    IN  /\ Len(queue) + Len(cbs) <= MaxQueue
        /\ newGoal' = [newGoal EXCEPT ![s] = TRUE]
        /\ newPreempt' = [newPreempt EXCEPT ![s] = FALSE]
        /\ preemptReq' = [preemptReq EXCEPT
                            ![s] = IF status[s] \in {"active", "preempting"} THEN TRUE ELSE @]
        /\ queue' = queue \o cbs
        /\ UNCHANGED <<state, status>>
        /\ NoCallback

\* A client cancels the current goal of host s.
CancelCurrent(s) ==
    /\ status[s] = "active"
    /\ Len(queue) < MaxQueue
    /\ status' = [status EXCEPT ![s] = "preempting"]
    /\ preemptReq' = [preemptReq EXCEPT ![s] = TRUE]
    /\ queue' = Append(queue, PreemptCallback(s))
    /\ UNCHANGED <<state, newGoal, newPreempt>>
    /\ NoCallback

\* A client cancels the goal that waits in host s to be accepted.
CancelWaiting(s) ==
    /\ newGoal[s]
    /\ ~newPreempt[s]
    /\ newPreempt' = [newPreempt EXCEPT ![s] = TRUE]
    /\ UNCHANGED <<state, status, newGoal, preemptReq, queue>>
    /\ NoCallback

(* The dispatcher runs the callback at the head of the queue. *)

RunLogListRequested ==
    /\ queue # <<>>
    /\ Head(queue) = "logListRequested"
    /\ queue' = Tail(queue)
    /\ \E ok \in BOOLEAN : Return("logListRequested", logListRequested(Enter, ok))

RunLogListRequestPreempted ==
    /\ queue # <<>>
    /\ Head(queue) = "logListRequestPreempted"
    /\ queue' = Tail(queue)
    /\ Return("logListRequestPreempted", logListRequestPreempted(Enter))

RunLogRequested ==
    /\ queue # <<>>
    /\ Head(queue) = "logRequested"
    /\ queue' = Tail(queue)
    /\ Return("logRequested", logRequested(Enter))

RunLogRequestPreempted ==
    /\ queue # <<>>
    /\ Head(queue) = "logRequestPreempted"
    /\ queue' = Tail(queue)
    /\ Return("logRequestPreempted", logRequestPreempted(Enter))

(* The synchronous services. *)

RequestList ==
    /\ \E ok \in BOOLEAN : Return("log_request_list_cb", log_request_list_cb(Enter, ok))
    /\ UNCHANGED queue

RequestData ==
    /\ \E ok \in BOOLEAN : Return("log_request_data_cb", log_request_data_cb(Enter, ok))
    /\ UNCHANGED queue

RequestEnd ==
    /\ \E ok \in BOOLEAN : Return("log_request_end_cb", log_request_end_cb(Enter, ok))
    /\ UNCHANGED queue

(* Inbound packets. *)

LogEntryArrives ==
    /\ \E le \in LogEntryPackets, now \in Clock :
          Return("handle_log_entry", handle_log_entry(Enter, le, now))
    /\ UNCHANGED queue

LogDataArrives ==
    /\ \E ld \in LogDataPackets, now \in Clock :
          Return("handle_log_data", handle_log_data(Enter, ld, now))
    /\ UNCHANGED queue

Dispatch ==
    \/ RunLogListRequested
    \/ RunLogListRequestPreempted
    \/ RunLogRequested
    \/ RunLogRequestPreempted

Next ==
    \/ \E s \in Servers : GoalArrives(s)
    \/ \E s \in Servers : CancelCurrent(s)
    \/ \E s \in Servers : CancelWaiting(s)
    \/ RunLogListRequested
    \/ RunLogListRequestPreempted
    \/ RunLogRequested
    \/ RunLogRequestPreempted
    \/ RequestList
    \/ RequestData
    \/ RequestEnd
    \/ LogEntryArrives
    \/ LogDataArrives

Spec == Init /\ [][Next]_vars

\* The dispatcher does not leave a queued callback waiting for ever; clients
\* are free never to send another goal or request.
FairSpec == Spec /\ WF_vars(Dispatch)

----------------------------------------------------------------------------
(* Properties.                                                             *)

Handlers == {"logListRequested", "logListRequestPreempted",
             "logRequested", "logRequestPreempted"}

\* The goal of host s is active now.
ActiveNow(s) == isActive(Snapshot, s)

\* The reports the callback that has just returned made on the goal of host s.
Reports(s) == SelectSeq(trace, LAMBDA r : r.op = "setPreempted" /\ r.tgt = s)

\* The wire commands it tried to send.
Sends == SelectSeq(trace, LAMBDA r : r.op = "send_message")

\* C2: when a goal callback or a preempt hook returns, the list goal and the
\* data goal are not both active in their hosts.
C2_OneGoalActive ==
    returned \in Handlers => ~(ActiveNow("list") /\ ActiveNow("data"))

\* C3: a list goal accepted while a data goal is active makes exactly one
\* report on the data goal, success = false, "Log list was requested", and
\* the data goal is not active afterwards; with no active data goal no report
\* is made on the data operation.
C3_ListGoalPreemptsData ==
    (returned = "logListRequested" /\ goal = "goal") =>
        IF isActive(pre, "data")
        THEN /\ Reports("data") =
                  <<Call("setPreempted", "data", "Log list was requested", FALSE, TRUE)>>
             /\ ~ActiveNow("data")
        ELSE Reports("data") = <<>>

C3_Witness ==
    /\ returned = "logListRequested"
    /\ goal = "goal"
    /\ isActive(pre, "data")
    /\ Len(Reports("data")) = 1

\* C4: a list goal accepted with no preemption requested leaves the flag at
\* GettingLogList when logListRequested returns.
C4_ListGoalSetsListActive ==
    (returned = "logListRequested" /\ goal = "goal" /\ ~preemptReq["list"]) =>
        state = "GettingLogList"

\* C5: a list goal accepted while the list host reports a requested preemption
\* is reported preempted, success = false, "Log list request was preempted";
\* it is not left active and the flag is Idle when the callback returns.
C5_SupersededListGoalRejected ==
    (returned = "logListRequested" /\ goal = "goal" /\ preemptReq["list"]) =>
        /\ Reports("list") =
             <<Call("setPreempted", "list", "Log list request was preempted", FALSE, TRUE)>>
        /\ trace[Len(trace)].tgt = "list"
        /\ ~ActiveNow("list")
        /\ state = "Idle"

C5_Witness ==
    /\ returned = "logListRequested"
    /\ goal = "goal"
    /\ preemptReq["list"]
    /\ pre.newPreempt["list"]
    /\ status["list"] = "preempted"

\* C6: a data goal accepted while no list preemption is requested is active
\* and the flag is GettingLogData when logRequested returns.
C6_DataGoalSetsDataActive ==
    (returned = "logRequested" /\ goal = "goal" /\ ~preemptReq["list"]) =>
        (ActiveNow("data") /\ state = "GettingLogData")

\* C7: logRequested run while the list host reports a requested preemption
\* reports the list goal preempted, success = false, "Another log list
\* request was accepted", and does not leave the flag at GettingLogData.
C7_PendingListPreemptionReported ==
    (returned = "logRequested" /\ preemptReq["list"]) =>
        /\ Len(Reports("list")) = 1
        /\ Reports("list")[1].text = "Another log list request was accepted"
        /\ Reports("list")[1].success = FALSE
        /\ state # "GettingLogData"

C7_Witness ==
    /\ returned = "logRequested"
    /\ preemptReq["list"]
    /\ Len(Reports("list")) = 1
    /\ Reports("list")[1].eff

\* C8: a goal whose cancellation was requested while it was active, and whose
\* preempt hook has run, is eventually no longer waiting for the report, and
\* the flag does not name it, although no further goal need arrive.
C8_CancelAcknowledged ==
    \A s \in Servers :
        (returned = PreemptCallback(s) /\ status[s] = "preempting")
            ~> (/\ status[s] # "preempting"
                /\ state # (IF s = "list" THEN "GettingLogList" ELSE "GettingLogData"))

\* C9: a goal callback whose acceptNewGoal returned null changes nothing: the
\* flag is as before, nothing is sent and no report is made to either host.
C9_NullGoalIgnored ==
    (returned \in {"logListRequested", "logRequested"} /\ goal = "null") =>
        /\ state = pre.state
        /\ Sends = <<>>
        /\ Reports("list") = <<>>
        /\ Reports("data") = <<>>

MessageOf(cb) ==
    CASE cb = "log_request_list_cb" -> "LOG_REQUEST_LIST"
      [] cb = "log_request_data_cb" -> "LOG_REQUEST_DATA"
      [] cb = "log_request_end_cb" -> "LOG_REQUEST_END"

\* C10: a synchronous request makes exactly one send attempt, of its own
\* message type; res.success is false exactly when that attempt threw, and
\* no exception leaves the callback.
C10_OneSendAttempt ==
    \A cb \in {"log_request_list_cb", "log_request_data_cb", "log_request_end_cb"} :
        returned = cb =>
            /\ Len(trace) = 1
            /\ trace[1].op = "send_message"
            /\ trace[1].tgt = MessageOf(cb)
            /\ result = trace[1].eff
            /\ exc = "none"

C10_Witness ==
    /\ returned = "log_request_data_cb"
    /\ Len(trace) = 1
    /\ ~trace[1].eff
    /\ ~result

\* C11: the synchronous requests, the packet handlers and the two preempt
\* hooks leave the flag and both goal hosts as they found them, and
\* res.success of a synchronous request is decided by the send alone.
C11_OnlyGoalCallbacksChangeSession ==
    /\ returned \in {"log_request_list_cb", "log_request_data_cb", "log_request_end_cb",
                     "handle_log_entry", "handle_log_data",
                     "logListRequestPreempted", "logRequestPreempted"} =>
            Snapshot = pre
    /\ returned \in {"log_request_list_cb", "log_request_data_cb", "log_request_end_cb"} =>
            (result <=> Sends[1].eff)

C11_Witness ==
    /\ returned = "log_request_end_cb"
    /\ ~result
    /\ ActiveNow("data")
    /\ ActiveNow("list")

\* C12: the LogData published for a LOG_DATA packet with count c carries
\* exactly min(c, capacity) bytes, the first bytes of the packet's data in
\* order, and the packet's id and offset.
C12_DataClampedToCapacity ==
    returned = "handle_log_data" =>
        LET ld == inbound.pkt
            msg == published[1].msg
            n == IF ld.count < PayloadCapacity THEN ld.count ELSE PayloadCapacity
        IN  /\ Len(published) = 1
            /\ Len(msg.data) = n
            /\ \A i \in 1..n : msg.data[i] = ld.data[i]
            /\ msg.id = ld.id
            /\ msg.offset = ld.ofs

C12_Witness ==
    /\ returned = "handle_log_data"
    /\ inbound.pkt.count = 200
    /\ Len(published[1].msg.data) = 90
    /\ published[1].msg.offset = inbound.pkt.ofs

\* C13: a packet handler publishes exactly one message, whatever the flag
\* and the goals: a LOG_ENTRY packet one LogEntry on raw/log_entry carrying
\* the packet's id, num_logs, last_log_num, time_utc and size; a LOG_DATA
\* packet one LogData on raw/log_data.  The other handlers publish nothing.
C13_OneMessagePerPacket ==
    /\ returned = "handle_log_entry" =>
            /\ Len(published) = 1
            /\ published[1].topic = "raw/log_entry"
            /\ published[1].msg.id = inbound.pkt.id
            /\ published[1].msg.num_logs = inbound.pkt.num_logs
            /\ published[1].msg.last_log_num = inbound.pkt.last_log_num
            /\ published[1].msg.time_utc.sec = inbound.pkt.time_utc
            /\ published[1].msg.time_utc.nsec = 0
            /\ published[1].msg.size = inbound.pkt.size
    /\ returned = "handle_log_data" =>
            /\ Len(published) = 1
            /\ published[1].topic = "raw/log_data"
    /\ returned \notin {"handle_log_entry", "handle_log_data"} => published = <<>>

C13_Witness ==
    /\ returned = "handle_log_entry"
    /\ inbound.pkt.id = 3
    /\ inbound.pkt.num_logs = 10
    /\ published[1].msg.last_log_num = 9
    /\ ActiveNow("data")

\* The positions in the trace of the calls of op on tgt.
Positions(op, tgt) ==
    {i \in 1..Len(trace) : trace[i].op = op /\ trace[i].tgt = tgt}

\* The working state the callback that has just returned started from.
Started == [Enter EXCEPT !.state = pre.state, !.status = pre.status,
                         !.newGoal = pre.newGoal, !.newPreempt = pre.newPreempt,
                         !.preemptReq = pre.preemptReq]

\* What logListRequested does after the send: its later calls, the flag and the hosts.
RestOfListRequest(c) ==
    [calls |-> SubSeq(c.trace, 3, Len(c.trace)), state |-> c.state,
     status |-> c.status, preemptReq |-> c.preemptReq, newGoal |-> c.newGoal]

\* C14 as claimed: logListRequested with a goal sends exactly one
\* LOG_REQUEST_END, before acceptNewGoal and before every report.
C14_EndSentBeforeAccept ==
    (returned = "logListRequested" /\ goal = "goal") =>
        /\ Len(Sends) = 1
        /\ \A i \in Positions("send_message", "LOG_REQUEST_END") :
              \A j \in Positions("acceptNewGoal", "list")
                      \cup Positions("setPreempted", "data")
                      \cup Positions("setPreempted", "list") : i < j

\* C14 as amended: logListRequested with a goal sends exactly one
\* LOG_REQUEST_END, right after acceptNewGoal returned the goal and before
\* every report to either host; the rest of the callback (its reports, the
\* flag, the hosts) is the same whether that send failed or not.
C14_EndSentOnceAfterAccept ==
    (returned = "logListRequested" /\ goal = "goal") =>
        /\ Len(Sends) = 1
        /\ Positions("acceptNewGoal", "list") = {1}
        /\ Positions("send_message", "LOG_REQUEST_END") = {2}
        /\ \A j \in Positions("setPreempted", "data") \cup Positions("setPreempted", "list") :
              j > 2
        /\ RestOfListRequest(logListRequested(Started, TRUE))
             = RestOfListRequest(logListRequested(Started, FALSE))
        /\ RestOfListRequest(logListRequested(Started, trace[2].eff))
             = [calls |-> SubSeq(trace, 3, Len(trace)), state |-> state,
                status |-> status, preemptReq |-> preemptReq, newGoal |-> newGoal]

C14_Witness ==
    /\ returned = "logListRequested"
    /\ goal = "goal"
    /\ Len(trace) = 4
    /\ ~trace[2].eff
    /\ status = [list |-> "preempted", data |-> "preempted"]

\* C15: LOG_REQUEST_LIST is sent by log_request_list_cb only and
\* LOG_REQUEST_DATA by log_request_data_cb only; logRequested and the two
\* preempt hooks send nothing, and logListRequested nothing but LOG_REQUEST_END.
C15_GoalsSendOnlyEnd ==
    /\ \A i \in 1..Len(Sends) :
          /\ Sends[i].tgt = "LOG_REQUEST_LIST" => returned = "log_request_list_cb"
          /\ Sends[i].tgt = "LOG_REQUEST_DATA" => returned = "log_request_data_cb"
          /\ returned = "logListRequested" => Sends[i].tgt = "LOG_REQUEST_END"
    /\ returned \in {"logRequested", "logListRequestPreempted", "logRequestPreempted"} =>
          Sends = <<>>

C15_Witness ==
    /\ returned = "logRequested"
    /\ goal = "goal"
    /\ ActiveNow("data")
    /\ Sends = <<>>

\* The reports made on the data goal after acceptNewGoal returned a data goal:
\* they concern the goal just accepted, which is then the host's current goal.
ReportsOnAcceptedData ==
    {i \in Positions("setPreempted", "data") :
        \E j \in Positions("acceptNewGoal", "data") : j < i /\ trace[j].eff}

\* C16 as claimed: in logRequested with a list preemption requested, "Log list
\* was requested" is reported only if a data goal was active before the
\* callback, and the data goal just accepted gets no report.
C16_ReportOnPreviousDataGoal ==
    (returned = "logRequested" /\ preemptReq["list"]) =>
        /\ Reports("data") # <<>> => isActive(pre, "data")
        /\ ReportsOnAcceptedData = {}

\* C16 as amended: in logRequested with a list preemption requested, "Log list
\* was requested" is reported on the data host's current goal after the accept:
\* on the goal just accepted whenever acceptNewGoal returned one, whether or not
\* a data goal was active before, and that goal is not active on return; with
\* a null goal, on the data goal active before, and only if one was active.
C16_ReportOnCurrentDataGoal ==
    (returned = "logRequested" /\ preemptReq["list"]) =>
        IF goal = "goal"
        THEN /\ Reports("data") =
                  <<Call("setPreempted", "data", "Log list was requested", FALSE, TRUE)>>
             /\ ReportsOnAcceptedData = Positions("setPreempted", "data")
             /\ status["data"] = "preempted"
        ELSE /\ Reports("data") =
                  IF isActive(pre, "data")
                  THEN <<Call("setPreempted", "data", "Log list was requested", FALSE, TRUE)>>
                  ELSE <<>>
             /\ ReportsOnAcceptedData = {}

C16_Witness ==
    /\ returned = "logRequested"
    /\ preemptReq["list"]
    /\ goal = "goal"
    /\ ~isActive(pre, "data")
    /\ Len(Reports("data")) = 1
    /\ status["data"] = "preempted"

\* The host a goal callback accepts its goal from.
HostOf(cb) == IF cb = "logListRequested" THEN "list" ELSE "data"

C18_ReportsOnlyActiveGoals ==
    \A i \in 1..Len(trace) : trace[i].op = "setPreempted" => trace[i].eff

\* C19: the State member is Idle in every reachable state, whichever goals
\* the hosts hold active.
C19_FlagAlwaysIdle == state = "Idle"

C19_Witness ==
    /\ returned = "logRequested"
    /\ goal = "goal"
    /\ ActiveNow("list")
    /\ ActiveNow("data")
    /\ state = "Idle"

====
